---- MODULE Spec2Model ----
(***************************************************************************)
(* A model of the screenshoot repository: the aspect-ratio resolvers, the  *)
(* virtual canvas model builder (createCanvasModel), the style projector   *)
(* (computeCanvasStyles), the raster exporter (renderToCanvas) and the     *)
(* useScreenshot hook with its export operations.                          *)
(*                                                                         *)
(* JavaScript numbers are modelled as exact extended rationals: a pair     *)
(* <<n, d>> with d > 0 and gcd(n, d) = 1 is the number n/d; <<0, 0>> is    *)
(* NaN, <<1, 0>> is +Infinity and <<-1, 0>> is -Infinity.  Rounding error  *)
(* of IEEE doubles and signed zeros are not modelled.                      *)
(***************************************************************************)
EXTENDS Integers, Sequences, FiniteSets, Bags, TLC

\* The computeCanvasStyles calls so far: a sequence of
\* [model, containerSize, styles].
VARIABLE projections

-----------------------------------------------------------------------------
(* Numbers *)

Abs(n) == IF n < 0 THEN -n ELSE n

Sign(n) == IF n > 0 THEN 1 ELSE IF n < 0 THEN -1 ELSE 0

RECURSIVE GCD(_, _)
GCD(a, b) == IF b = 0 THEN a ELSE GCD(b, a % b)

\* The number n/d (d >= 0) in lowest terms; n/0 is NaN or a signed Infinity.
Norm(n, d) ==
    IF d = 0 THEN <<Sign(n), 0>>
    ELSE LET g == GCD(Abs(n), d) IN <<n \div g, d \div g>>

Num(n) == <<n, 1>>

Frac(n, d) == Norm(n, d)

NaN == <<0, 0>>

IsNaN(a) == a = NaN

IsFinite(a) == a[2] > 0

Neg(a) == <<-a[1], a[2]>>

Add(a, b) ==
    IF a[2] = 0 /\ b[2] = 0
    THEN (IF a = b THEN a ELSE NaN)
    ELSE Norm(a[1] * b[2] + b[1] * a[2], a[2] * b[2])

Sub(a, b) == Add(a, Neg(b))

Mul(a, b) == Norm(a[1] * b[1], a[2] * b[2])

Recip(a) ==
    IF a[1] > 0 THEN <<a[2], a[1]>>
    ELSE IF a[1] < 0 THEN <<-a[2], -a[1]>>
    ELSE IF a[2] > 0 THEN <<1, 0>> ELSE NaN

Div(a, b) ==
    IF a[2] = 0 /\ b[2] = 0 THEN NaN ELSE Mul(a, Recip(b))

\* a < b as JavaScript compares numbers: false when either is NaN.
Lt(a, b) ==
    /\ ~IsNaN(a)
    /\ ~IsNaN(b)
    /\ IF a[2] = 0 /\ b[2] = 0 THEN a[1] < b[1]
       ELSE a[1] * b[2] < b[1] * a[2]

Gt(a, b) == Lt(b, a)

Le(a, b) == ~IsNaN(a) /\ ~IsNaN(b) /\ ~Lt(b, a)

Ge(a, b) == Le(b, a)

\* Math.min and Math.max: NaN when either argument is NaN.
MathMin(a, b) == IF IsNaN(a) \/ IsNaN(b) THEN NaN ELSE IF Lt(b, a) THEN b ELSE a

MathMax(a, b) == IF IsNaN(a) \/ IsNaN(b) THEN NaN ELSE IF Lt(a, b) THEN b ELSE a

\* Math.round: the nearest integer, halves rounded towards +Infinity.
MathRound(a) ==
    IF a[2] = 0 THEN a ELSE Num((2 * a[1] + a[2]) \div (2 * a[2]))

\* JavaScript truthiness of a number: 0 and NaN are falsy.
Truthy(a) == ~IsNaN(a) /\ a[1] # 0

\* x || dflt on numbers.
OrElse(a, dflt) == IF Truthy(a) THEN a ELSE dflt

-----------------------------------------------------------------------------
(* Strings: String.prototype.includes, split(':') and Number(string) *)

CharAt(s, i) == SubSeq(s, i, i)

\* s.includes(sub): sub occurs in s as a substring.
includes(s, sub) ==
    \E i \in 1..(Len(s) - Len(sub) + 1) : SubSeq(s, i, i + Len(sub) - 1) = sub

\* Position of the first occurrence of c in s at or after i; Len(s) + 1 if none.
RECURSIVE IndexFrom(_, _, _)
IndexFrom(s, c, i) ==
    IF i > Len(s) THEN Len(s) + 1
    ELSE IF CharAt(s, i) = c THEN i
    ELSE IndexFrom(s, c, i + 1)

\* s.split(c): the sequence of the pieces of s between occurrences of c.
RECURSIVE split(_, _)
split(s, c) ==
    LET k == IndexFrom(s, c, 1) IN
    IF k > Len(s) THEN <<s>>
    ELSE <<SubSeq(s, 1, k - 1)>> \o split(SubSeq(s, k + 1, Len(s)), c)

Digits == <<"0", "1", "2", "3", "4", "5", "6", "7", "8", "9">>

IsDigit(c) == \E k \in 1..10 : Digits[k] = c

DigitVal(c) == (CHOOSE k \in 1..10 : Digits[k] = c) - 1

AllDigits(s) == \A i \in 1..Len(s) : IsDigit(CharAt(s, i))

RECURSIVE DigitsVal(_)
DigitsVal(s) ==
    IF Len(s) = 0 THEN 0
    ELSE 10 * DigitsVal(SubSeq(s, 1, Len(s) - 1)) + DigitVal(CharAt(s, Len(s)))

RECURSIVE Pow10(_)
Pow10(k) == IF k = 0 THEN 1 ELSE 10 * Pow10(k - 1)

\* Number(s) for the decimal literals: "" is 0, digits with at most one "."
\* and at least one digit are a number, anything else is NaN.
ToNumber(s) ==
    IF Len(s) = 0 THEN Num(0)
    ELSE LET k  == IndexFrom(s, ".", 1)
             ip == SubSeq(s, 1, k - 1)
             fp == SubSeq(s, k + 1, Len(s))
         IN IF AllDigits(ip) /\ AllDigits(fp) /\ Len(ip) + Len(fp) > 0
            THEN Frac(DigitsVal(ip) * Pow10(Len(fp)) + DigitsVal(fp), Pow10(Len(fp)))
            ELSE NaN

\* An absent value (null, undefined) is the empty sequence, a present value v
\* the one-element sequence <<v>>.
Null == <<>>

Some(v) == <<v>>

-----------------------------------------------------------------------------
(* Catalogs and default settings *)

\* src/hooks/useScreenshot.ts, aspectRatioOptions
aspectRatioOptions == <<
    [value |-> "4:3",                 width |-> Num(4),         height |-> Num(3)],
    [value |-> "3:2",                 width |-> Num(3),         height |-> Num(2)],
    [value |-> "16:9",                width |-> Num(16),        height |-> Num(9)],
    [value |-> "1:1",                 width |-> Num(1),         height |-> Num(1)],
    [value |-> "9:16",                width |-> Num(9),         height |-> Num(16)],
    [value |-> "4:5",                 width |-> Num(4),         height |-> Num(5)],
    [value |-> "1.91:1",              width |-> Frac(191, 100), height |-> Num(1)],
    [value |-> "youtube-thumbnail",   width |-> Num(1280),      height |-> Num(720)],
    [value |-> "instagram-story",     width |-> Num(1080),      height |-> Num(1920)],
    [value |-> "instagram-square",    width |-> Num(1080),      height |-> Num(1080)],
    [value |-> "instagram-portrait",  width |-> Num(1080),      height |-> Num(1350)],
    [value |-> "instagram-landscape", width |-> Num(1080),      height |-> Num(566)],
    [value |-> "twitter-post",        width |-> Num(1600),      height |-> Num(900)],
    [value |-> "youtube-community",   width |-> Num(1080),      height |-> Num(1080)] >>

\* The keys exportImage treats as plain ratios (no exact pixel dimensions).
standardRatios == {"4:3", "3:2", "16:9", "1:1", "9:16", "4:5", "1.91:1"}

\* src/app/layout.tsx carries a second revision of the hook with this catalog.
aspectRatioOptionsLayout == <<
    [value |-> "twitter-post",       width |-> Num(1600), height |-> Num(900)],
    [value |-> "instagram-story",    width |-> Num(1080), height |-> Num(1920)],
    [value |-> "youtube-thumbnail",  width |-> Num(1280), height |-> Num(720)],
    [value |-> "instagram-portrait", width |-> Num(1080), height |-> Num(1350)],
    [value |-> "youtube-community",  width |-> Num(1080), height |-> Num(1080)] >>

backgroundPresets == <<
    [id |-> 1, className |-> "bg-gradient-to-br from-blue-500 to-purple-600"],
    [id |-> 2, className |-> "bg-gradient-to-br from-green-400 to-blue-500"],
    [id |-> 3, className |-> "bg-gradient-to-br from-orange-400 to-pink-500"] >>

defaultSettings ==
    [padding |-> 40, inset |-> 0, insetColor |-> "#FFFFFF", borderRadius |-> 8,
     shadow |-> 15, backgroundPreset |-> 1, aspectRatio |-> "16:9"]

\* Array.prototype.find on a catalog: the first option whose value is key,
\* or undefined.
findOption(options, key) ==
    LET hits == {i \in 1..Len(options) : options[i].value = key} IN
    IF hits = {} THEN Null
    ELSE Some(options[CHOOSE i \in hits : \A j \in hits : i <= j])

\* Array.prototype.find on the presets: the first preset with the id, or
\* undefined.
findPreset(presets, id) ==
    LET hits == {i \in 1..Len(presets) : presets[i].id = id} IN
    IF hits = {} THEN Null
    ELSE Some(presets[CHOOSE i \in hits : \A j \in hits : i <= j])

\* Canvas.tsx currentBackground: the class of the selected preset, or ''.
currentBackground(presets, s) ==
    LET preset == findPreset(presets, s.backgroundPreset) IN
    IF preset = Null THEN "" ELSE preset[1].className

CatalogKeys(options) == {options[i].value : i \in 1..Len(options)}

-----------------------------------------------------------------------------
(* Aspect-ratio resolution *)

\* Canvas.tsx getAspectRatio: "w:h" keys are parsed, the named formats are a
\* switch, anything else is 16:9.
getAspectRatio(aspectRatioSetting) ==
    IF includes(aspectRatioSetting, ":")
    THEN LET parts == split(aspectRatioSetting, ":") IN
         [width |-> ToNumber(parts[1]), height |-> ToNumber(parts[2])]
    ELSE CASE aspectRatioSetting = "instagram-story" ->
                [width |-> Num(9), height |-> Num(16)]
           [] aspectRatioSetting \in {"instagram-square", "youtube-community"} ->
                [width |-> Num(1), height |-> Num(1)]
           [] aspectRatioSetting = "instagram-portrait" ->
                [width |-> Num(4), height |-> Num(5)]
           [] aspectRatioSetting \in {"youtube-thumbnail", "twitter-post"} ->
                [width |-> Num(16), height |-> Num(9)]
           [] OTHER ->
                [width |-> Num(16), height |-> Num(9)]

\* useScreenshot.ts getAspectRatioDimensions.
getAspectRatioDimensions(aspectRatioValue) ==
    LET aspectOption == findOption(aspectRatioOptions, aspectRatioValue) IN
    IF aspectOption # Null
    THEN [width |-> aspectOption[1].width, height |-> aspectOption[1].height,
          exactDimensions |-> aspectRatioValue \notin standardRatios]
    ELSE IF includes(aspectRatioValue, ":")
    THEN LET parts == split(aspectRatioValue, ":") IN
         [width |-> ToNumber(parts[1]), height |-> ToNumber(parts[2]),
          exactDimensions |-> FALSE]
    ELSE [width |-> Num(16), height |-> Num(9), exactDimensions |-> FALSE]

\* layout.tsx revision of getAspectRatioDimensions.
getAspectRatioDimensionsLayout(aspectRatioValue) ==
    LET aspectOption == findOption(aspectRatioOptionsLayout, aspectRatioValue) IN
    IF aspectOption # Null
    THEN [width |-> aspectOption[1].width, height |-> aspectOption[1].height,
          exactDimensions |-> TRUE]
    ELSE [width |-> Num(16), height |-> Num(9), exactDimensions |-> FALSE]

\* createCanvasModel, the aspectRatioValue it resolves.
modelAspectRatioValue(options, key) ==
    LET aspectOption == findOption(options, key) IN
    [width  |-> IF aspectOption = Null THEN Num(16)
                ELSE OrElse(aspectOption[1].width, Num(16)),
     height |-> IF aspectOption = Null THEN Num(9)
                ELSE OrElse(aspectOption[1].height, Num(9))]

\* A variant of exportDimensions that scales every option to the base size
\* and never takes the exact pixel dimensions.
exportDimensionsScaled(dims, baseExportSize) ==
    LET aspectRatio == Div(dims.width, dims.height) IN
    IF Ge(aspectRatio, Num(1))
    THEN [width  |-> Num(baseExportSize),
          height |-> MathRound(Div(Num(baseExportSize), aspectRatio))]
    ELSE [width  |-> MathRound(Mul(Num(baseExportSize), aspectRatio)),
          height |-> Num(baseExportSize)]

\* exportImage / copyToClipboard: the width and height handed to toPng, from
\* the resolved dimensions and the base size for the plain ratios.
exportDimensions(dims, baseExportSize) ==
    LET aspectRatio == Div(dims.width, dims.height) IN
    IF dims.exactDimensions
    THEN [width |-> dims.width, height |-> dims.height]
    ELSE IF Ge(aspectRatio, Num(1))
    THEN [width  |-> Num(baseExportSize),
          height |-> MathRound(Div(Num(baseExportSize), aspectRatio))]
    ELSE [width  |-> MathRound(Mul(Num(baseExportSize), aspectRatio)),
          height |-> Num(baseExportSize)]

exportImageBaseSize == 1920

copyToClipboardBaseSize == 1200

-----------------------------------------------------------------------------
(* Fitting the canvas into the container *)

\* A variant of calculateConstrainedSize that always constrains by width.
calculateConstrainedSizeByWidth(containerSize, aspect) ==
    LET parentWidth  == Num(containerSize.width)
        targetRatio  == Div(aspect.width, aspect.height)
    IN IF containerSize.width = 0 \/ containerSize.height = 0
       THEN [unit |-> "%", width |-> Num(100), height |-> Num(100)]
       ELSE [unit |-> "px", width |-> parentWidth,
             height |-> Div(parentWidth, targetRatio)]

\* Canvas.tsx calculateConstrainedSize: the canvas box for a container and
\* the ratio getAspectRatio resolved; "100%" both ways while unmeasured.
calculateConstrainedSize(containerSize, aspect) ==
    LET parentWidth  == Num(containerSize.width)
        parentHeight == Num(containerSize.height)
        targetRatio  == Div(aspect.width, aspect.height)
        parentRatio  == Div(parentWidth, parentHeight)
    IN IF containerSize.width = 0 \/ containerSize.height = 0
       THEN [unit |-> "%", width |-> Num(100), height |-> Num(100)]
       ELSE IF Gt(parentRatio, targetRatio)
       THEN [unit |-> "px", width |-> Mul(parentHeight, targetRatio),
             height |-> parentHeight]
       ELSE [unit |-> "px", width |-> parentWidth,
             height |-> Div(parentWidth, targetRatio)]

\* A variant of calculateScaleFactor that always takes the height as the
\* constraint.
calculateScaleFactorByHeight(settings, imageDimensions, containerSize) ==
    LET aspect == getAspectRatio(settings.aspectRatio)
        canvasAspectRatio == Div(aspect.width, aspect.height)
        parentWidth  == Num(containerSize.width)
        parentHeight == Num(containerSize.height)
        parentRatio  == Div(parentWidth, parentHeight)
        canvasWidth  == IF Gt(parentRatio, canvasAspectRatio)
                        THEN Mul(parentHeight, canvasAspectRatio) ELSE parentWidth
        canvasHeight == IF Gt(parentRatio, canvasAspectRatio)
                        THEN parentHeight ELSE Div(parentWidth, canvasAspectRatio)
        availableWidth  == Sub(Sub(canvasWidth, Num(settings.padding * 2)),
                               Num(settings.inset * 2))
        availableHeight == Sub(Sub(canvasHeight, Num(settings.padding * 2)),
                               Num(settings.inset * 2))
        scale == Div(availableHeight, Num(imageDimensions.height))
    IN IF Le(availableWidth, Num(0)) \/ Le(availableHeight, Num(0))
       THEN Frac(1, 100)
       ELSE Mul(scale, Frac(95, 100))

\* Canvas.tsx calculateScaleFactor: the contentScale of the live preview.
\* Padding and inset are taken off the canvas pixels as they are.
calculateScaleFactor(settings, imageDimensions, containerSize) ==
    LET aspect == getAspectRatio(settings.aspectRatio)
        canvasAspectRatio == Div(aspect.width, aspect.height)
        parentWidth  == Num(containerSize.width)
        parentHeight == Num(containerSize.height)
        parentRatio  == Div(parentWidth, parentHeight)
        canvasWidth  == IF Gt(parentRatio, canvasAspectRatio)
                        THEN Mul(parentHeight, canvasAspectRatio) ELSE parentWidth
        canvasHeight == IF Gt(parentRatio, canvasAspectRatio)
                        THEN parentHeight ELSE Div(parentWidth, canvasAspectRatio)
        availableWidth  == Sub(Sub(canvasWidth, Num(settings.padding * 2)),
                               Num(settings.inset * 2))
        availableHeight == Sub(Sub(canvasHeight, Num(settings.padding * 2)),
                               Num(settings.inset * 2))
        imageAspectRatio    == Div(Num(imageDimensions.width), Num(imageDimensions.height))
        availableSpaceRatio == Div(availableWidth, availableHeight)
        scale == IF Gt(imageAspectRatio, availableSpaceRatio)
                 THEN Div(availableWidth, Num(imageDimensions.width))
                 ELSE Div(availableHeight, Num(imageDimensions.height))
    IN IF Le(availableWidth, Num(0)) \/ Le(availableHeight, Num(0))
       THEN Frac(1, 100)
       ELSE Mul(scale, Frac(95, 100))

\* Canvas.tsx, shadowWrapperStyle: the box shadow (px) and the border radius
\* of the wrapper of the image.
shadowWrapperStyle(settings) ==
    [boxShadow |->
        IF settings.shadow > 0
        THEN Some([offsetX |-> Mul(Num(settings.shadow), Frac(5, 10)),
                   offsetY |-> Mul(Num(settings.shadow), Frac(15, 10)),
                   blur    |-> Mul(Num(settings.shadow), Frac(25, 10)),
                   color   |-> "rgba(0,0,0,0.35)"])
        ELSE Null,
     borderRadius |-> Num(settings.borderRadius)]

\* Canvas.tsx, screenshotStyle of the second Canvas component of the file: the
\* box shadow (px), the border radius and the inset border of the wrapper.
screenshotStyle(settings) ==
    [boxShadow |->
        IF settings.shadow > 0
        THEN Some([offsetX |-> Mul(Num(settings.shadow), Frac(8, 10)),
                   offsetY |-> Mul(Num(settings.shadow), Frac(12, 10)),
                   blur    |-> Mul(Num(settings.shadow), Num(2)),
                   color   |-> "rgba(0,0,0,0.3)"])
        ELSE Null,
     borderRadius |-> Num(settings.borderRadius),
     border |-> IF settings.inset > 0
                THEN Some([width |-> Num(settings.inset), color |-> settings.insetColor])
                ELSE Null]

\* The second Canvas component, what one render shows of the settings: the
\* background class of the canvas div and the screenshot wrapper.
secondCanvasStyles(settings) ==
    [background |-> currentBackground(backgroundPresets, settings),
     screenshot |-> screenshotStyle(settings)]

\* Canvas.tsx, the styles of one render: the background class, the canvas
\* box, the padding and the inset in px as the settings give them, the shadow
\* wrapper, the image at contentScale.
canvasStyles(settings, imageDimensions, contentScale, containerSize) ==
    [background |-> currentBackground(backgroundPresets, settings),
     shadowWrapper |-> shadowWrapperStyle(settings),
     container |-> calculateConstrainedSize(containerSize,
                                            getAspectRatio(settings.aspectRatio)),
     padding   |-> Num(settings.padding),
     inset     |-> Num(settings.inset),
     image     |-> IF imageDimensions = Null
                   THEN [width |-> Num(0), height |-> Num(0)]
                   ELSE [width  |-> Mul(Num(imageDimensions[1].width), contentScale),
                         height |-> Mul(Num(imageDimensions[1].height), contentScale)]]

\* A variant of canvasBox whose width grows by a pixel with every call made
\* so far.
canvasBoxDrifting(aspectRatioValue, containerSize) ==
    LET canvasAspectRatio == Div(aspectRatioValue.width, aspectRatioValue.height)
        containerRatio    == Div(Num(containerSize.width), Num(containerSize.height))
        drift             == Num(Len(projections))
    IN IF Gt(containerRatio, canvasAspectRatio)
       THEN [width |-> Add(Mul(Num(containerSize.height), canvasAspectRatio), drift),
             height |-> Num(containerSize.height)]
       ELSE [width |-> Add(Num(containerSize.width), drift),
             height |-> Div(Num(containerSize.width), canvasAspectRatio)]

\* computeCanvasStyles, the canvasWidth/canvasHeight it computes.
canvasBox(aspectRatioValue, containerSize) ==
    LET containerWidth    == Num(containerSize.width)
        containerHeight   == Num(containerSize.height)
        canvasAspectRatio == Div(aspectRatioValue.width, aspectRatioValue.height)
        containerRatio    == Div(containerWidth, containerHeight)
    IN IF Gt(containerRatio, canvasAspectRatio)
       THEN [width |-> Mul(containerHeight, canvasAspectRatio),
             height |-> containerHeight]
       ELSE [width |-> containerWidth,
             height |-> Div(containerWidth, canvasAspectRatio)]

-----------------------------------------------------------------------------
(* The virtual canvas model *)

maxPaddingPct == Frac(4, 10)

maxInsetPct == Frac(2, 10)

safetyFactor == Frac(95, 100)

\* A variant of normalizePadding without the ceiling.
normalizePaddingUnclamped(padding) == Div(Num(padding), Num(100))

normalizePadding(padding) == MathMin(Div(Num(padding), Num(100)), maxPaddingPct)

normalizeInset(inset) == MathMin(Div(Num(inset), Num(100)), maxInsetPct)

\* A variant of imageScale that adds the inset to the available area instead
\* of taking it away.
imageScaleInsetAdded(normalizedPadding, normalizedInset, aspectRatio, imageDimensions, containerSize) ==
    IF imageDimensions # Null /\ containerSize.width > 0 /\ containerSize.height > 0
    THEN LET available == Add(Sub(Num(1), Mul(normalizedPadding, Num(2))),
                              Mul(OrElse(normalizedInset, Num(0)), Num(2)))
             imageRatio == Div(Num(imageDimensions[1].width),
                               Num(imageDimensions[1].height))
             fitted == IF Gt(imageRatio, aspectRatio)
                       THEN available
                       ELSE Mul(available, Div(imageRatio, aspectRatio))
         IN Mul(fitted, safetyFactor)
    ELSE Num(1)

\* createCanvasModel, the image scale: 1 until an image and a measured
\* container are present, then the fit of the image into the area left by
\* padding and inset, times the safety factor.
imageScale(normalizedPadding, normalizedInset, aspectRatio, imageDimensions, containerSize) ==
    IF imageDimensions # Null /\ containerSize.width > 0 /\ containerSize.height > 0
    THEN LET availableWidth  == Sub(Sub(Num(1), Mul(normalizedPadding, Num(2))),
                                    Mul(OrElse(normalizedInset, Num(0)), Num(2)))
             availableHeight == Sub(Sub(Num(1), Mul(normalizedPadding, Num(2))),
                                    Mul(OrElse(normalizedInset, Num(0)), Num(2)))
             availableSpaceRatio ==
                 Mul(Div(availableWidth, availableHeight), aspectRatio)
             imageRatio == Div(Num(imageDimensions[1].width),
                               Num(imageDimensions[1].height))
             fitted == IF Gt(imageRatio, availableSpaceRatio)
                       THEN availableWidth
                       ELSE Mul(availableHeight, Div(imageRatio, aspectRatio))
         IN Mul(fitted, safetyFactor)
    ELSE Num(1)

createCanvasModel(settings, presets, imageDimensions, options, containerSize) ==
    LET aspectRatioValue   == modelAspectRatioValue(options, settings.aspectRatio)
        aspectRatio        == Div(aspectRatioValue.width, aspectRatioValue.height)
        backgroundPreset   == findPreset(presets, settings.backgroundPreset)
        normalizedPadding  == normalizePadding(settings.padding)
        normalizedInset    == normalizeInset(settings.inset)
        normalizedBorderRadius == Div(Num(settings.borderRadius), Num(100))
        normalizedShadow   == Div(Num(settings.shadow), Num(100))
    IN [aspectRatio      |-> settings.aspectRatio,
        aspectRatioValue |-> aspectRatioValue,
        background |->
            [type      |-> "gradient",
             className |-> IF backgroundPreset = Null
                           THEN "bg-gradient-to-br from-blue-500 to-purple-600"
                           ELSE backgroundPreset[1].className,
             effects   |-> [noise |-> Some(Frac(1, 10))]],
        content |->
            [padding |-> normalizedPadding,
             image   |->
                IF imageDimensions = Null THEN Null
                ELSE Some(
                    [naturalWidth  |-> Num(imageDimensions[1].width),
                     naturalHeight |-> Num(imageDimensions[1].height),
                     position      |-> [x |-> Frac(1, 2), y |-> Frac(1, 2)],
                     scale         |-> imageScale(normalizedPadding, normalizedInset,
                                                  aspectRatio, imageDimensions,
                                                  containerSize),
                     effects |->
                        [shadow |-> [offsetX |-> Mul(normalizedShadow, Frac(1, 2)),
                                     offsetY |-> Mul(normalizedShadow, Frac(3, 2)),
                                     blur    |-> Mul(normalizedShadow, Frac(5, 2)),
                                     color   |-> "rgba(0,0,0,0.35)"],
                         borderRadius |-> normalizedBorderRadius,
                         inset |-> [size  |-> normalizedInset,
                                    color |-> settings.insetColor]]])]]

-----------------------------------------------------------------------------
(* The style projector *)

\* computeCanvasStyles: the pixel values of the styles it returns.  The image
\* box is centred in the canvas by the flex centring of the padding container.
computeCanvasStyles(model, containerSize) ==
    LET box == canvasBox(model.aspectRatioValue, containerSize)
        canvasWidth  == box.width
        canvasHeight == box.height
        minCanvasDimension == MathMin(canvasWidth, canvasHeight)
        paddingPx == Mul(minCanvasDimension, model.content.padding)
        basic == [container        |-> [width |-> canvasWidth, height |-> canvasHeight],
                  paddingContainer |-> [padding |-> paddingPx,
                                        alignItems |-> "center",
                                        justifyContent |-> "center"]]
    IN IF model.content.image = Null
       THEN [container        |-> basic.container,
             paddingContainer |-> basic.paddingContainer,
             shadowWrapper |-> Null, insetWrapper |-> Null, image |-> Null]
       ELSE LET img == model.content.image[1]
                scaleFactor == MathMin(canvasWidth, canvasHeight)
                scaledImageWidth  == Mul(Mul(img.naturalWidth, img.scale), scaleFactor)
                scaledImageHeight == Mul(Mul(img.naturalHeight, img.scale), scaleFactor)
                minScaled == MathMin(scaledImageWidth, scaledImageHeight)
                insetSize == OrElse(img.effects.inset.size, Num(0))
                insetPx   == Mul(insetSize, minCanvasDimension)
            IN [container        |-> basic.container,
                paddingContainer |-> basic.paddingContainer,
                shadowWrapper |-> Some(
                    [offsetX |-> Mul(OrElse(img.effects.shadow.offsetX, Num(0)),
                                     scaledImageWidth),
                     offsetY |-> Mul(OrElse(img.effects.shadow.offsetY, Num(0)),
                                     scaledImageHeight),
                     blur    |-> Mul(OrElse(img.effects.shadow.blur, Num(0)), minScaled),
                     borderRadius |->
                        IF Truthy(img.effects.borderRadius)
                        THEN Mul(img.effects.borderRadius, minScaled)
                        ELSE Num(0)]),
                insetWrapper |-> Some([padding |-> insetPx]),
                image |-> Some([width |-> scaledImageWidth,
                                height |-> scaledImageHeight])]

-----------------------------------------------------------------------------
(* The raster exporter *)

\* renderToCanvas, the colour stops of the background gradient: a lookup on
\* the class name, blue to purple when nothing matches.
gradientStops(className) ==
    IF includes(className, "from-blue-500") /\ includes(className, "to-purple-600")
    THEN <<"#3b82f6", "#9333ea">>
    ELSE IF includes(className, "from-green-400") /\ includes(className, "to-blue-500")
    THEN <<"#4ade80", "#3b82f6">>
    ELSE IF includes(className, "from-orange-400") /\ includes(className, "to-pink-500")
    THEN <<"#fb923c", "#ec4899">>
    ELSE <<"#3b82f6", "#9333ea">>

\* The noise pass runs when model.background.effects.noise is a number > 0.
noiseEnabled(model) ==
    /\ model.background.effects.noise # Null
    /\ Truthy(model.background.effects.noise[1])
    /\ Gt(model.background.effects.noise[1], Num(0))

\* A variant of renderLayout that takes the padding from the target width
\* instead of the shorter side.
renderLayoutByWidth(model, targetWidth, targetHeight) ==
    LET img == model.content.image[1]
        minDimension == MathMin(Num(targetWidth), Num(targetHeight))
        paddingPx    == Mul(Num(targetWidth), model.content.padding)
        insetPx      == Mul(minDimension, OrElse(img.effects.inset.size, Num(0)))
        scaledWidth  == Mul(Mul(img.naturalWidth, img.scale), minDimension)
        scaledHeight == Mul(Mul(img.naturalHeight, img.scale), minDimension)
        imageX  == Sub(Div(Num(targetWidth), Num(2)), Div(scaledWidth, Num(2)))
        imageY  == Sub(Div(Num(targetHeight), Num(2)), Div(scaledHeight, Num(2)))
        minScaled == MathMin(scaledWidth, scaledHeight)
    IN [paddingPx |-> paddingPx,
        insetPx   |-> insetPx,
        image |-> [x |-> imageX, y |-> imageY,
                   width |-> scaledWidth, height |-> scaledHeight],
        shadow |-> [offsetX |-> Mul(img.effects.shadow.offsetX, scaledWidth),
                    offsetY |-> Mul(img.effects.shadow.offsetY, scaledHeight),
                    blur    |-> Mul(img.effects.shadow.blur, minScaled)],
        borderRadiusPx |-> Mul(OrElse(img.effects.borderRadius, Num(0)), minScaled),
        inset |-> IF Gt(insetPx, Num(0))
                  THEN Some([x |-> Sub(imageX, insetPx), y |-> Sub(imageY, insetPx),
                             width  |-> Add(scaledWidth, Mul(insetPx, Num(2))),
                             height |-> Add(scaledHeight, Mul(insetPx, Num(2)))])
                  ELSE Null]

\* renderToCanvas, img.onload: the boxes drawn for the image.
renderLayout(model, targetWidth, targetHeight) ==
    LET img == model.content.image[1]
        minDimension == MathMin(Num(targetWidth), Num(targetHeight))
        paddingPx    == Mul(minDimension, model.content.padding)
        insetPx      == Mul(minDimension, OrElse(img.effects.inset.size, Num(0)))
        scaledWidth  == Mul(Mul(img.naturalWidth, img.scale), minDimension)
        scaledHeight == Mul(Mul(img.naturalHeight, img.scale), minDimension)
        centerX == Div(Num(targetWidth), Num(2))
        centerY == Div(Num(targetHeight), Num(2))
        imageX  == Sub(centerX, Div(scaledWidth, Num(2)))
        imageY  == Sub(centerY, Div(scaledHeight, Num(2)))
        minScaled == MathMin(scaledWidth, scaledHeight)
    IN [paddingPx |-> paddingPx,
        insetPx   |-> insetPx,
        image |-> [x |-> imageX, y |-> imageY,
                   width |-> scaledWidth, height |-> scaledHeight],
        shadow |-> [offsetX |-> Mul(img.effects.shadow.offsetX, scaledWidth),
                    offsetY |-> Mul(img.effects.shadow.offsetY, scaledHeight),
                    blur    |-> Mul(img.effects.shadow.blur, minScaled)],
        borderRadiusPx |-> Mul(OrElse(img.effects.borderRadius, Num(0)), minScaled),
        inset |-> IF Gt(insetPx, Num(0))
                  THEN Some([x |-> Sub(imageX, insetPx), y |-> Sub(imageY, insetPx),
                             width  |-> Add(scaledWidth, Mul(insetPx, Num(2))),
                             height |-> Add(scaledHeight, Mul(insetPx, Num(2)))])
                  ELSE Null]

\* getImageData(0, 0, sw, sh) throws IndexSizeError when sw or sh is 0.
getImageDataThrows(targetWidth, targetHeight) == targetWidth = 0 \/ targetHeight = 0

\* A variant of noisyChannel with twice the noise amplitude.
noisyChannelWide(data, random, noiseOpacity) ==
    LET noise == Mul(Mul(Sub(random, Frac(1, 2)), Num(50)), noiseOpacity)
    IN MathMin(Num(255), MathMax(Num(0), Add(data, noise)))

\* renderToCanvas, the noise step on one colour channel of a pixel:
\* Math.min(255, Math.max(0, data[i] + (Math.random() - 0.5) * 25 * noiseOpacity)).
noisyChannel(data, random, noiseOpacity) ==
    LET noise == Mul(Mul(Sub(random, Frac(1, 2)), Num(25)), noiseOpacity)
    IN MathMin(Num(255), MathMax(Num(0), Add(data, noise)))

HexDigits == <<"0", "1", "2", "3", "4", "5", "6", "7", "8", "9",
               "a", "b", "c", "d", "e", "f">>

HexVal(c) == (CHOOSE k \in 1..16 : HexDigits[k] = c) - 1

\* The byte of a "#rrggbb" colour that starts at position i.
hexByte(colour, i) == 16 * HexVal(CharAt(colour, i)) + HexVal(CharAt(colour, i + 1))

\* fillRect with the gradient: the RGBA bytes of the pixel at the first
\* colour stop, opaque.
fillPixel(stops) ==
    [r |-> Num(hexByte(stops[1], 2)), g |-> Num(hexByte(stops[1], 4)),
     b |-> Num(hexByte(stops[1], 6)), a |-> Num(255)]

\* A store into imageData.data, a Uint8ClampedArray: the nearest integer,
\* halves to the even one, clamped to 0..255; NaN is stored as 0.
toUint8Clamped(x) ==
    IF IsNaN(x) THEN Num(0)
    ELSE IF x[2] = 0 THEN (IF x[1] > 0 THEN Num(255) ELSE Num(0))
    ELSE LET floor == x[1] \div x[2]
             rest  == x[1] - floor * x[2]
             near  == IF 2 * rest > x[2] THEN floor + 1
                      ELSE IF 2 * rest < x[2] THEN floor
                      ELSE IF floor % 2 = 0 THEN floor ELSE floor + 1
         IN Num(IF near < 0 THEN 0 ELSE IF near > 255 THEN 255 ELSE near)

\* The pixel at the first colour stop after the noise step: one noise value
\* added to R, G and B, alpha not written.
noisePixel(model, random) ==
    LET fill == fillPixel(gradientStops(model.background.className))
        noiseOpacity == model.background.effects.noise[1]
    IN IF noiseEnabled(model)
       THEN [r |-> toUint8Clamped(noisyChannel(fill.r, random, noiseOpacity)),
             g |-> toUint8Clamped(noisyChannel(fill.g, random, noiseOpacity)),
             b |-> toUint8Clamped(noisyChannel(fill.b, random, noiseOpacity)),
             a |-> fill.a]
       ELSE fill

\* A variant of renderStart that rejects a model without an image.
renderStartImageRequired(model, targetWidth, targetHeight, ctxOk, random) ==
    IF ~ctxOk
    THEN [status |-> "rejected", error |-> "Could not create canvas context",
          canvas |-> Null]
    ELSE IF noiseEnabled(model) /\ getImageDataThrows(targetWidth, targetHeight)
    THEN [status |-> "rejected", error |-> "IndexSizeError", canvas |-> Null]
    ELSE IF model.content.image = Null
    THEN [status |-> "rejected", error |-> "No image", canvas |-> Null]
    ELSE [status |-> "pending", error |-> "",
          canvas |-> Some([width |-> targetWidth, height |-> targetHeight,
                           stops |-> gradientStops(model.background.className),
                           fill  |-> fillPixel(gradientStops(model.background.className)),
                           noise |-> noiseEnabled(model),
                           pixel |-> noisePixel(model, random), layout |-> Null])]

\* renderToCanvas up to img.src = screenshotSrc: the state of the returned
\* promise.  ctxOk is whether getContext('2d') returned a context, random
\* the value Math.random() returns in the noise step.
renderStart(model, targetWidth, targetHeight, ctxOk, random) ==
    LET base == [width |-> targetWidth, height |-> targetHeight,
                 stops |-> gradientStops(model.background.className),
                 fill  |-> fillPixel(gradientStops(model.background.className)),
                 noise |-> noiseEnabled(model),
                 pixel |-> noisePixel(model, random), layout |-> Null]
    IN IF ~ctxOk
       THEN [status |-> "rejected", error |-> "Could not create canvas context",
             canvas |-> Null]
       ELSE IF noiseEnabled(model) /\ getImageDataThrows(targetWidth, targetHeight)
       THEN [status |-> "rejected", error |-> "IndexSizeError", canvas |-> Null]
       ELSE IF model.content.image = Null
       THEN [status |-> "resolved", error |-> "", canvas |-> Some(base)]
       ELSE [status |-> "pending", error |-> "", canvas |-> Some(base)]

\* img.onload: draw the image and resolve with the data URL of the canvas.
renderOnload(model, pending) ==
    [status |-> "resolved", error |-> "",
     canvas |-> Some([pending.canvas[1] EXCEPT
                        !.layout = Some(renderLayout(model, pending.canvas[1].width,
                                                     pending.canvas[1].height))])]

\* img.onerror: reject.
renderOnerror(pending) ==
    [status |-> "rejected", error |-> "Failed to load the image", canvas |-> Null]

-----------------------------------------------------------------------------
(* State *)

VARIABLES
    \* the useScreenshot hook and the page
    screenshotSrc,   \* Null or Some(data URL of the uploaded file)
    settings,        \* the ScreenshotSettings record
    reads,           \* FileReader reads in flight: a set of [id, file]
    uploads,         \* number of handleImageUpload calls so far
    exports,         \* the exportImage / copyToClipboard calls: a bag of calls
    downloads,       \* number of downloads started by link.click()
    clipboard,       \* number of completed navigator.clipboard.write calls
    consoleErrors,   \* number of console.error calls
    \* the Canvas component
    imageDimensions, \* Null or Some([width, height]) of the decoded image
    decodes,         \* image decodes in flight: a set of data URLs
    \* aspect-ratio resolution and canvas fit, applied to a key and a container
    gKey, gContainer, gPreview, gExport, gCopy, gLayout, gModel,
    \* createCanvasModel, computeCanvasStyles and renderToCanvas, applied to
    \* settings, image dimensions, a container and a target size
    cSettings, cImage, cContainer, model, styles, rInput, render,
    rendered,        \* the settled renderToCanvas calls so far: a sequence of
                     \* promise outcomes
    canvasView       \* Null or Some(what the mounted Canvas component shows)

hookVars == <<screenshotSrc, settings, reads, uploads, exports, downloads,
              clipboard, consoleErrors, imageDimensions, decodes>>

geoVars == <<gKey, gContainer, gPreview, gExport, gCopy, gLayout, gModel>>

canvasVars == <<cSettings, cImage, cContainer, model, styles, rInput, render,
                projections, rendered, canvasView>>

vars == <<hookVars, geoVars, canvasVars>>

-----------------------------------------------------------------------------
(* Bounds and input sets *)

MaxUploads == 2

MaxExports == 2

MaxContainerUnits == 4

MaxPaddingSteps == 3

MaxInsetSteps == 3

MaxRenders == 2

MaxProjections == 3

\* Keys outside the catalog.
UnknownKeys == {"21:9", "a:b", "widescreen", ""}

Keys == CatalogKeys(aspectRatioOptions) \cup UnknownKeys

\* Container boxes as getBoundingClientRect reports them, 0 while unmeasured.
Containers ==
    {[width |-> 100 * i, height |-> 100 * j] : i, j \in 0..MaxContainerUnits}

\* Slider values: padding in steps of 20, inset in steps of 10.
Paddings == {20 * k : k \in 0..MaxPaddingSteps}

Insets == {10 * k : k \in 0..MaxInsetSteps}

Images == {Null, Some([width |-> 2000, height |-> 1000]),
           Some([width |-> 1000, height |-> 2000]),
           Some([width |-> 1600, height |-> 900])}

CanvasKeys == {"16:9", "1:1", "instagram-story", "widescreen"}

CanvasContainers == {[width |-> 0, height |-> 0], [width |-> 1600, height |-> 900],
                     [width |-> 800, height |-> 800], [width |-> 450, height |-> 800],
                     [width |-> 1000, height |-> 500]}

Targets == {[width |-> 1920, height |-> 1080], [width |-> 1080, height |-> 1080],
            [width |-> 1080, height |-> 1920], [width |-> 0, height |-> 1080],
            [width |-> 1080, height |-> 0]}

\* The files a user can paste or drop: the type the browser reports (from
\* the extension), whether the content is an image that decodes, and its
\* natural size.
Files == {[name |-> "A.png", type |-> "image/png", isImage |-> TRUE,
           width |-> 2000, height |-> 1000],
          [name |-> "B.jpg", type |-> "image/jpeg", isImage |-> TRUE,
           width |-> 1000, height |-> 2000],
          [name |-> "notes.txt", type |-> "text/plain", isImage |-> FALSE,
           width |-> 0, height |-> 0],
          [name |-> "renamed.png", type |-> "image/png", isImage |-> FALSE,
           width |-> 0, height |-> 0]}

\* The files of one paste or drop: e.clipboardData.files, acceptedFiles.
FileLists == {<<>>} \cup {<<f>> : f \in Files} \cup {<<f, g>> : f, g \in Files}

\* The aspect-ratio buttons and padding values exercised in the page.
PageKeys == {"16:9", "instagram-story"}

\* Values Math.random() returns, in [0, 1).
RandomValues == {Num(0), Frac(1, 2), Frac(9, 10)}

\* The containers a resize moves to.
ResizeContainers == {[width |-> 800, height |-> 450], [width |-> 800, height |-> 800]}

PagePaddings == {0, 40}

HookInit ==
    /\ screenshotSrc = Null
    /\ settings = defaultSettings
    /\ reads = {}
    /\ uploads = 0
    /\ exports = EmptyBag
    /\ downloads = 0
    /\ clipboard = 0
    /\ consoleErrors = 0
    /\ imageDimensions = Null
    /\ decodes = {}

GeoIdle ==
    /\ gPreview = Null
    /\ gExport = Null
    /\ gCopy = Null
    /\ gLayout = Null
    /\ gModel = Null

CanvasIdle ==
    /\ model = Null
    /\ styles = Null
    /\ rInput = Null
    /\ render = Null
    /\ projections = <<>>
    /\ rendered = <<>>
    /\ canvasView = Null

-----------------------------------------------------------------------------
(* Aspect-ratio resolution and canvas fit, applied to one key and container *)

\* The Canvas component renders: getAspectRatio, then calculateConstrainedSize.
CanvasRender ==
    /\ gPreview = Null
    /\ gPreview' = Some([aspect |-> getAspectRatio(gKey),
                         size   |-> calculateConstrainedSize(gContainer,
                                                             getAspectRatio(gKey))])
    /\ UNCHANGED <<gKey, gContainer, gExport, gCopy, gLayout, gModel>>
    /\ UNCHANGED <<hookVars, canvasVars>>

\* exportImage resolves the key and computes the size it asks toPng for.
ExportImageDims ==
    /\ gExport = Null
    /\ gExport' = Some([dims   |-> getAspectRatioDimensions(gKey),
                        target |-> exportDimensions(getAspectRatioDimensions(gKey),
                                                    exportImageBaseSize)])
    /\ UNCHANGED <<gKey, gContainer, gPreview, gCopy, gLayout, gModel>>
    /\ UNCHANGED <<hookVars, canvasVars>>

\* copyToClipboard does the same with its smaller base size.
CopyToClipboardDims ==
    /\ gCopy = Null
    /\ gCopy' = Some([dims   |-> getAspectRatioDimensions(gKey),
                      target |-> exportDimensions(getAspectRatioDimensions(gKey),
                                                  copyToClipboardBaseSize)])
    /\ UNCHANGED <<gKey, gContainer, gPreview, gExport, gLayout, gModel>>
    /\ UNCHANGED <<hookVars, canvasVars>>

\* exportImage of the layout.tsx revision of the hook.
ExportImageDimsLayout ==
    /\ gLayout = Null
    /\ gLayout' = Some([dims   |-> getAspectRatioDimensionsLayout(gKey),
                        target |-> exportDimensions(getAspectRatioDimensionsLayout(gKey),
                                                    exportImageBaseSize)])
    /\ UNCHANGED <<gKey, gContainer, gPreview, gExport, gCopy, gModel>>
    /\ UNCHANGED <<hookVars, canvasVars>>

\* createCanvasModel resolves the key, computeCanvasStyles fits the canvas.
ModelFit ==
    /\ gModel = Null
    /\ gModel' = Some([aspect |-> modelAspectRatioValue(aspectRatioOptions, gKey),
                       box    |-> canvasBox(modelAspectRatioValue(aspectRatioOptions, gKey),
                                            gContainer)])
    /\ UNCHANGED <<gKey, gContainer, gPreview, gExport, gCopy, gLayout>>
    /\ UNCHANGED <<hookVars, canvasVars>>

GeometryInit ==
    /\ gKey \in Keys
    /\ gContainer \in Containers
    /\ GeoIdle
    /\ HookInit
    /\ cSettings = defaultSettings /\ cImage = Null
    /\ cContainer = [width |-> 0, height |-> 0]
    /\ CanvasIdle

GeometryNext ==
    \/ CanvasRender
    \/ ExportImageDims
    \/ CopyToClipboardDims
    \/ ExportImageDimsLayout
    \/ ModelFit

GeometrySpec == GeometryInit /\ [][GeometryNext]_vars

-----------------------------------------------------------------------------
(* Properties of aspect-ratio resolution and canvas fit *)

PositiveBox(c) == c.width > 0 /\ c.height > 0

PositiveRatio(a) ==
    /\ IsFinite(a.width) /\ Gt(a.width, Num(0))
    /\ IsFinite(a.height) /\ Gt(a.height, Num(0))

RatioOf(a) == Div(a.width, a.height)

FitsContainer(box, aspect, container) ==
    /\ RatioOf(box) = RatioOf(aspect)
    /\ Le(box.width, Num(container.width))
    /\ Le(box.height, Num(container.height))

\* C2: for every container box with positive width and height and every
\* aspect ratio with positive width and height, the canvas box of
\* calculateConstrainedSize (Canvas) and of computeCanvasStyles has the
\* ratio's width/height and exceeds the container in neither dimension.
RatioFit ==
    /\ (gPreview # Null /\ PositiveBox(gContainer) /\ PositiveRatio(gPreview[1].aspect))
         => /\ gPreview[1].size.unit = "px"
            /\ FitsContainer(gPreview[1].size, gPreview[1].aspect, gContainer)
    /\ (gModel # Null /\ PositiveBox(gContainer) /\ PositiveRatio(gModel[1].aspect))
         => FitsContainer(gModel[1].box, gModel[1].aspect, gContainer)

\* A container wider than the ratio has been fitted by the Canvas and by
\* computeCanvasStyles: the box is narrower than the container.
RatioFitWitness ==
    /\ gPreview # Null /\ gModel # Null /\ PositiveBox(gContainer)
    /\ gKey = "1.91:1"
    /\ gContainer = [width |-> 400, height |-> 100]
    /\ Lt(gPreview[1].size.width, Num(gContainer.width))
    /\ Lt(gModel[1].box.width, Num(gContainer.width))

InCatalog(key) == key \in CatalogKeys(aspectRatioOptions)

\* C6: for every key of the aspect-ratio catalog, the width:height ratio the
\* live preview uses (getAspectRatio) equals the catalog option's width/height,
\* which is the ratio of the dimensions getAspectRatioDimensions derives.
PreviewRatioIsCatalogRatio ==
    (gPreview # Null /\ gExport # Null /\ InCatalog(gKey))
      => LET option == findOption(aspectRatioOptions, gKey)[1] IN
         /\ RatioOf(gPreview[1].aspect) = RatioOf(option)
         /\ RatioOf(gExport[1].dims) = RatioOf(option)

Is16x9(a) == a.width = Num(16) /\ a.height = Num(9)

\* C7: for every key that is not in the catalog, ratio resolution in
\* createCanvasModel, in getAspectRatio and in getAspectRatioDimensions
\* returns width 16 and height 9.
UnknownKeyResolvesTo16x9 ==
    (gPreview # Null /\ gExport # Null /\ gModel # Null /\ ~InCatalog(gKey))
      => /\ Is16x9(gModel[1].aspect)
         /\ Is16x9(gPreview[1].aspect)
         /\ Is16x9(gExport[1].dims)

\* The options listed under "Social media specific" in the catalog.
socialMediaOptions ==
    {"youtube-thumbnail", "instagram-story", "instagram-square", "instagram-portrait",
     "instagram-landscape", "twitter-post", "youtube-community"}

IsInteger(a) == a[2] = 1

NearestIntegerTo(e, x) ==
    IsInteger(e) /\ Le(Sub(e, x), Frac(1, 2)) /\ Le(Sub(x, e), Frac(1, 2))

\* The longer edge is base, the other edge base scaled by the ratio, rounded.
LongEdgeScaled(target, option, base) ==
    IF Ge(RatioOf(option), Num(1))
    THEN /\ target.width = Num(base)
         /\ NearestIntegerTo(target.height, Div(Num(base), RatioOf(option)))
         /\ Le(target.height, target.width)
    ELSE /\ target.height = Num(base)
         /\ NearestIntegerTo(target.width, Mul(Num(base), RatioOf(option)))
         /\ Le(target.width, target.height)

ExportRoundedWitness ==
    /\ gExport # Null
    /\ gKey = "1.91:1"
    /\ gExport[1].target = [width |-> Num(1920), height |-> Num(1005)]

FillAvailable(size) ==
    size.unit = "%" /\ size.width = Num(100) /\ size.height = Num(100)

\* C15: when the container's width or height is 0, the fit step returns the
\* fill-available placeholder of 100% width and height, in Canvas
\* calculateConstrainedSize and in computeCanvasStyles alike, and not a
\* zero-sized or NaN-sized box.
DegenerateContainerPlaceholder ==
    (gContainer.width = 0 \/ gContainer.height = 0)
      => /\ gPreview # Null => FillAvailable(gPreview[1].size)
         /\ gModel # Null
              => /\ IsFinite(gModel[1].box.width) /\ Gt(gModel[1].box.width, Num(0))
                 /\ IsFinite(gModel[1].box.height) /\ Gt(gModel[1].box.height, Num(0))

-----------------------------------------------------------------------------
(* The page: the useScreenshot hook, the uploader and the Canvas decode *)

startsWith(s, prefix) ==
    Len(s) >= Len(prefix) /\ SubSeq(s, 1, Len(prefix)) = prefix

\* FileReader.readAsDataURL: the data URL of a file, named by the file.
dataURL(file) == file.name

fileOf(url) == CHOOSE f \in Files : dataURL(f) = url

\* elementRef.current.querySelector('div[class*="bg-gradient"]') finds the
\* canvas div, whose class starts with currentBackground.
exportElementFound(s) ==
    includes(currentBackground(backgroundPresets, s), "bg-gradient")

\* Canvas.tsx renders the ImageUploader unless an image is shown; the
\* uploader renders its dropzone unless screenshotSrc is set.
uploaderMounted == ~(screenshotSrc # Null /\ imageDimensions # Null)

dropzoneRendered == uploaderMounted /\ screenshotSrc = Null

\* react-dropzone passes on the files matching accept: {'image/*': [...]}.
SUPPORTED_IMAGE_TYPES == {".png", ".jpg", ".jpeg", ".webp"}

endsWith(s, suffix) ==
    Len(s) >= Len(suffix) /\ SubSeq(s, Len(s) - Len(suffix) + 1, Len(s)) = suffix

dropzoneAccepts(file) ==
    \/ startsWith(file.type, "image/")
    \/ \E ext \in SUPPORTED_IMAGE_TYPES : endsWith(file.name, ext)

\* handleImageUpload(file): start a FileReader read of the file.
handleImageUpload(file) ==
    /\ reads' = reads \cup {[id |-> uploads + 1, file |-> file.name]}
    /\ uploads' = uploads + 1

\* The paste listener of the ImageUploader.
Paste ==
    /\ uploaderMounted
    /\ uploads < MaxUploads
    /\ \E files \in FileLists :
         IF Len(files) > 0 /\ startsWith(files[1].type, "image/")
         THEN handleImageUpload(files[1])
         ELSE UNCHANGED <<reads, uploads>>
    /\ UNCHANGED <<screenshotSrc, settings, exports, downloads, clipboard,
                   consoleErrors, imageDimensions, decodes>>
    /\ UNCHANGED <<geoVars, canvasVars>>

\* onDrop of the dropzone, with the files react-dropzone accepted: with
\* multiple: false it accepts a single matching file and nothing otherwise.
Drop ==
    /\ dropzoneRendered
    /\ uploads < MaxUploads
    /\ \E files \in FileLists :
         LET acceptedFiles == IF Len(files) = 1 /\ dropzoneAccepts(files[1])
                              THEN files ELSE <<>>
         IN IF Len(acceptedFiles) > 0
            THEN handleImageUpload(acceptedFiles[1])
            ELSE UNCHANGED <<reads, uploads>>
    /\ UNCHANGED <<screenshotSrc, settings, exports, downloads, clipboard,
                   consoleErrors, imageDimensions, decodes>>
    /\ UNCHANGED <<geoVars, canvasVars>>

\* reader.onload: setScreenshotSrc(result); the Canvas effect on a changed
\* screenshotSrc starts decoding it.
ReaderOnload ==
    \E r \in reads :
        /\ reads' = reads \ {r}
        /\ screenshotSrc' = Some(r.file)
        /\ decodes' = IF screenshotSrc' # screenshotSrc
                      THEN decodes \cup {r.file} ELSE decodes
        /\ UNCHANGED <<settings, uploads, exports, downloads, clipboard,
                       consoleErrors, imageDimensions>>
        /\ UNCHANGED <<geoVars, canvasVars>>

\* A decode of a data URL that holds no image fails; the Canvas sets no
\* img.onerror, so nothing happens.
DecodeOnerror ==
    \E url \in decodes :
        /\ ~fileOf(url).isImage
        /\ decodes' = decodes \ {url}
        /\ UNCHANGED <<screenshotSrc, settings, reads, uploads, exports, downloads,
                       clipboard, consoleErrors, imageDimensions>>
        /\ UNCHANGED <<geoVars, canvasVars>>

\* img.onload of a decode: setImageDimensions.
DecodeOnload ==
    \E url \in decodes :
        /\ fileOf(url).isImage
        /\ decodes' = decodes \ {url}
        /\ imageDimensions' = Some([width  |-> fileOf(url).width,
                                    height |-> fileOf(url).height])
        /\ UNCHANGED <<screenshotSrc, settings, reads, uploads, exports, downloads,
                       clipboard, consoleErrors>>
        /\ UNCHANGED <<geoVars, canvasVars>>

\* A variant of updateSettings that spreads the new fields over the default
\* settings.
updateSettingsOverDefaults(prev, newSettings) ==
    [k \in DOMAIN prev |-> IF k \in DOMAIN newSettings THEN newSettings[k]
                           ELSE defaultSettings[k]]

\* updateSettings(newSettings): { ...prev, ...newSettings }.
updateSettings(prev, newSettings) ==
    [k \in DOMAIN prev |-> IF k \in DOMAIN newSettings THEN newSettings[k] ELSE prev[k]]

\* The controls of the ControlPanel.
ChangeSettings ==
    /\ \/ \E v \in PageKeys : settings' = updateSettings(settings, [aspectRatio |-> v])
       \/ \E v \in PagePaddings : settings' = updateSettings(settings, [padding |-> v])
    /\ UNCHANGED <<screenshotSrc, reads, uploads, exports, downloads, clipboard,
                   consoleErrors, imageDimensions, decodes>>
    /\ UNCHANGED <<geoVars, canvasVars>>

\* A variant of settled that starts the render again after a failure.
settledRetrying(task, failed) ==
    IF failed
    THEN [task EXCEPT !.pc = "toPng", !.renders = @ + 1]
    ELSE [task EXCEPT !.pc = "done", !.failed = failed, !.promise = "fulfilled"]

\* The promise of an export call that has returned: async functions that
\* catch every error fulfil with undefined.
settled(task, failed) ==
    [task EXCEPT !.pc = "done", !.failed = failed, !.promise = "fulfilled"]

baseSizeOf(kind) ==
    IF kind = "export" THEN exportImageBaseSize ELSE copyToClipboardBaseSize

\* One more occurrence of task among the calls, one fewer, one replaced.
withCall(calls, task) == calls (+) SetToBag({task})

withoutCall(calls, task) == calls (-) SetToBag({task})

replaceCall(calls, task, next) == withCall(withoutCall(calls, task), next)

\* page.tsx: canExport={!!screenshotSrc}, which enables the two buttons of
\* the ControlPanel.
canExport == screenshotSrc # Null

\* A variant of ExportCall without the screenshotSrc guard.
ExportCallUngated ==
    \E kind \in {"export", "copy"} :
        LET task == [kind |-> kind, pc |-> "toPng", failed |-> FALSE,
                     promise |-> "pending", value |-> "undefined",
                     renders |-> 0, outputs |-> 0,
                     target |-> exportDimensions(
                                    getAspectRatioDimensions(settings.aspectRatio),
                                    baseSizeOf(kind))]
        IN /\ BagCardinality(exports) < MaxExports
           /\ IF ~exportElementFound(settings)
              THEN /\ exports' = withCall(exports, settled(task, TRUE))
                   /\ consoleErrors' = consoleErrors + 1
              ELSE /\ exports' = withCall(exports, [task EXCEPT !.renders = 1])
                   /\ UNCHANGED consoleErrors
           /\ UNCHANGED <<screenshotSrc, settings, reads, uploads, downloads,
                          clipboard, imageDimensions, decodes>>
           /\ UNCHANGED <<geoVars, canvasVars>>

\* exportImage(elementRef) or copyToClipboard(elementRef) is called: the
\* guard, the element lookup and the size, up to the await of toPng.
ExportCall ==
    \E kind \in {"export", "copy"} :
        LET task == [kind |-> kind, pc |-> "toPng", failed |-> FALSE,
                     promise |-> "pending", value |-> "undefined",
                     renders |-> 0, outputs |-> 0,
                     target |-> exportDimensions(
                                    getAspectRatioDimensions(settings.aspectRatio),
                                    baseSizeOf(kind))]
        IN /\ BagCardinality(exports) < MaxExports
           /\ IF screenshotSrc = Null
              THEN /\ exports' = withCall(exports, settled(task, FALSE))
                   /\ UNCHANGED consoleErrors
              ELSE IF ~exportElementFound(settings)
              THEN /\ exports' = withCall(exports, settled(task, TRUE))
                   /\ consoleErrors' = consoleErrors + 1
              ELSE /\ exports' = withCall(exports, [task EXCEPT !.renders = 1])
                   /\ UNCHANGED consoleErrors
           /\ UNCHANGED <<screenshotSrc, settings, reads, uploads, downloads,
                          clipboard, imageDimensions, decodes>>
           /\ UNCHANGED <<geoVars, canvasVars>>

\* toPng settles: exportImage clicks the download link, copyToClipboard goes
\* on to fetch the data URL; a rejection lands in the catch.
ToPngSettles ==
    \E task \in BagToSet(exports), ok \in BOOLEAN :
        /\ task.pc = "toPng"
        /\ IF ~ok
           THEN /\ exports' = replaceCall(exports, task, settled(task, TRUE))
                /\ consoleErrors' = consoleErrors + 1
                /\ UNCHANGED downloads
           ELSE IF task.kind = "export"
           THEN /\ exports' = replaceCall(exports, task,
                                  settled([task EXCEPT !.outputs = @ + 1], FALSE))
                /\ downloads' = downloads + 1
                /\ UNCHANGED consoleErrors
           ELSE /\ exports' = replaceCall(exports, task, [task EXCEPT !.pc = "fetch"])
                /\ UNCHANGED <<downloads, consoleErrors>>
        /\ UNCHANGED <<screenshotSrc, settings, reads, uploads, clipboard,
                       imageDimensions, decodes>>
        /\ UNCHANGED <<geoVars, canvasVars>>

\* fetch(dataUrl).then(res => res.blob()) settles.
FetchSettles ==
    \E task \in BagToSet(exports), ok \in BOOLEAN :
        /\ task.pc = "fetch"
        /\ IF ok
           THEN /\ exports' = replaceCall(exports, task, [task EXCEPT !.pc = "write"])
                /\ UNCHANGED consoleErrors
           ELSE /\ exports' = replaceCall(exports, task, settled(task, TRUE))
                /\ consoleErrors' = consoleErrors + 1
        /\ UNCHANGED <<screenshotSrc, settings, reads, uploads, downloads, clipboard,
                       imageDimensions, decodes>>
        /\ UNCHANGED <<geoVars, canvasVars>>

\* navigator.clipboard.write settles.
ClipboardWriteSettles ==
    \E task \in BagToSet(exports), ok \in BOOLEAN :
        /\ task.pc = "write"
        /\ IF ok
           THEN /\ exports' = replaceCall(exports, task,
                                  settled([task EXCEPT !.outputs = @ + 1], FALSE))
                /\ clipboard' = clipboard + 1
                /\ UNCHANGED consoleErrors
           ELSE /\ exports' = replaceCall(exports, task, settled(task, TRUE))
                /\ consoleErrors' = consoleErrors + 1
                /\ UNCHANGED clipboard
        /\ UNCHANGED <<screenshotSrc, settings, reads, uploads, downloads,
                       imageDimensions, decodes>>
        /\ UNCHANGED <<geoVars, canvasVars>>

Init ==
    /\ HookInit
    /\ gKey = defaultSettings.aspectRatio
    /\ gContainer = [width |-> 0, height |-> 0]
    /\ GeoIdle
    /\ cSettings = defaultSettings /\ cImage = Null
    /\ cContainer = [width |-> 0, height |-> 0]
    /\ CanvasIdle

Next ==
    \/ Paste
    \/ Drop
    \/ ReaderOnload
    \/ DecodeOnload
    \/ DecodeOnerror
    \/ ChangeSettings
    \/ ExportCall
    \/ ToPngSettles
    \/ FetchSettles
    \/ ClipboardWriteSettles

Spec == Init /\ [][Next]_vars

\* The hook from the end of construction or from one handleImageUpload call
\* whose read is in flight: the exports and the settings updates that follow.
ExportsInit ==
    /\ screenshotSrc = Null
    /\ settings = defaultSettings
    /\ \/ reads = {} /\ uploads = 0
       \/ \E file \in Files : file.type = "image/png"
                               /\ reads = {[id |-> 1, file |-> file.name]}
                               /\ uploads = 1
    /\ exports = EmptyBag
    /\ downloads = 0
    /\ clipboard = 0
    /\ consoleErrors = 0
    /\ imageDimensions = Null
    /\ decodes = {}
    /\ gKey = defaultSettings.aspectRatio
    /\ gContainer = [width |-> 0, height |-> 0]
    /\ GeoIdle
    /\ cSettings = defaultSettings /\ cImage = Null
    /\ cContainer = [width |-> 0, height |-> 0]
    /\ CanvasIdle

ExportsNext ==
    \/ ReaderOnload
    \/ DecodeOnload
    \/ DecodeOnerror
    \/ ChangeSettings
    \/ ExportCall
    \/ ToPngSettles
    \/ FetchSettles
    \/ ClipboardWriteSettles

ExportsSpec == ExportsInit /\ [][ExportsNext]_vars

-----------------------------------------------------------------------------
(* createCanvasModel, computeCanvasStyles and renderToCanvas, applied to one
   choice of settings, image dimensions, container and target size *)

\* A VirtualCanvas without the optional noise effect.
withoutNoise(m) == [m EXCEPT !.background.effects.noise = Null]

\* The outcomes of the settled calls, with that of a call that has settled.
withSettled(outcomes, outcome) ==
    IF outcome.status = "pending" THEN outcomes ELSE Append(outcomes, outcome)

\* One more computeCanvasStyles call and what it returned.
withProjection(calls, m, containerSize, st) ==
    Append(calls, [model |-> m, containerSize |-> containerSize, styles |-> st])

BuildModel ==
    /\ model = Null
    /\ model' = Some(createCanvasModel(cSettings, backgroundPresets, cImage,
                                       aspectRatioOptions, cContainer))
    /\ UNCHANGED <<cSettings, cImage, cContainer, styles, rInput, render,
                   projections, rendered, canvasView>>
    /\ UNCHANGED <<hookVars, geoVars>>

ProjectStyles ==
    /\ model # Null
    /\ styles = Null
    /\ styles' = Some(computeCanvasStyles(model[1], cContainer))
    /\ projections' = withProjection(projections, model[1], cContainer, styles'[1])
    /\ UNCHANGED <<cSettings, cImage, cContainer, model, rInput, render, rendered,
                   canvasView>>
    /\ UNCHANGED <<hookVars, geoVars>>

\* computeCanvasStyles is called again, on a resize of the container or a
\* re-render at the same size.
Reproject ==
    /\ styles # Null
    /\ Len(projections) < MaxProjections
    /\ \E containerSize \in ResizeContainers \cup {cContainer} :
         projections' = withProjection(projections, model[1], containerSize,
                                       computeCanvasStyles(model[1], containerSize))
    /\ UNCHANGED <<cSettings, cImage, cContainer, model, styles, rInput, render,
                   rendered, canvasView>>
    /\ UNCHANGED <<hookVars, geoVars>>

\* renderToCanvas(model, screenshotSrc, targetWidth, targetHeight) is called
\* with the built model, or with that model less its noise effect.
RenderCall ==
    /\ styles # Null
    /\ render = Null
    /\ \E target \in Targets, ctxOk \in BOOLEAN, random \in RandomValues,
          m \in {model[1], withoutNoise(model[1])} :
         /\ rInput' = Some([model |-> m, target |-> target, ctxOk |-> ctxOk])
         /\ render' = Some(renderStart(m, target.width, target.height, ctxOk, random))
    /\ rendered' = withSettled(rendered, render'[1])
    /\ UNCHANGED <<cSettings, cImage, cContainer, model, styles, projections,
                   canvasView>>
    /\ UNCHANGED <<hookVars, geoVars>>

\* renderToCanvas is called once more with the arguments of the call before.
RenderAgain ==
    /\ render # Null
    /\ render[1].status # "pending"
    /\ Len(rendered) < MaxRenders
    /\ \E random \in RandomValues :
         render' = Some(renderStart(rInput[1].model, rInput[1].target.width,
                                    rInput[1].target.height, rInput[1].ctxOk, random))
    /\ rendered' = withSettled(rendered, render'[1])
    /\ UNCHANGED <<cSettings, cImage, cContainer, model, styles, rInput, projections,
                   canvasView>>
    /\ UNCHANGED <<hookVars, geoVars>>

ImgOnload ==
    /\ render # Null
    /\ render[1].status = "pending"
    /\ render' = Some(renderOnload(rInput[1].model, render[1]))
    /\ rendered' = withSettled(rendered, render'[1])
    /\ UNCHANGED <<cSettings, cImage, cContainer, model, styles, rInput, projections,
                   canvasView>>
    /\ UNCHANGED <<hookVars, geoVars>>

ImgOnerror ==
    /\ render # Null
    /\ render[1].status = "pending"
    /\ render' = Some(renderOnerror(render[1]))
    /\ rendered' = withSettled(rendered, render'[1])
    /\ UNCHANGED <<cSettings, cImage, cContainer, model, styles, rInput, projections,
                   canvasView>>
    /\ UNCHANGED <<hookVars, geoVars>>

CanvasSettings ==
    {[defaultSettings EXCEPT !.padding = p, !.inset = i, !.aspectRatio = k] :
        p \in Paddings, i \in Insets, k \in CanvasKeys}

CanvasModelInit ==
    /\ cSettings \in CanvasSettings
    /\ cImage \in Images
    /\ cContainer \in CanvasContainers
    /\ CanvasIdle
    /\ HookInit
    /\ gKey = defaultSettings.aspectRatio
    /\ gContainer = [width |-> 0, height |-> 0]
    /\ GeoIdle

CanvasModelNext ==
    \/ BuildModel
    \/ ProjectStyles
    \/ RenderCall
    \/ ImgOnload
    \/ ImgOnerror

CanvasModelSpec == CanvasModelInit /\ [][CanvasModelNext]_vars

-----------------------------------------------------------------------------
(* The live preview of the Canvas component at a container size *)

PreviewContainers ==
    {[width |-> 0, height |-> 0], [width |-> 1600, height |-> 900],
     [width |-> 320, height |-> 180], [width |-> 800, height |-> 800],
     [width |-> 400, height |-> 400]}

\* The partial settings records the controls send to the mounted Canvas.
PreviewPartials == {[padding |-> 40], [inset |-> 0], [aspectRatio |-> "instagram-story"]}

\* The dependencies of the contentScale effect.
scaleDeps == <<cImage, cContainer, cSettings.padding, cSettings.inset,
               cSettings.aspectRatio>>

\* The Canvas mounts: contentScale is useState(1), the effect has not run.
CanvasMount ==
    /\ canvasView = Null
    /\ canvasView' = Some([contentScale |-> Num(1), deps |-> Null,
                           scaledFor |-> Null,
                           styles |-> canvasStyles(cSettings, cImage, Num(1),
                                                   cContainer)])
    /\ UNCHANGED <<cSettings, cImage, cContainer, model, styles, rInput, render,
                   projections, rendered>>
    /\ UNCHANGED <<hookVars, geoVars>>

\* The ResizeObserver reports a new size: setContainerSize and a render
\* with the contentScale of before.
ContainerResize ==
    /\ canvasView # Null
    /\ \E containerSize \in PreviewContainers :
         /\ containerSize # cContainer
         /\ cContainer' = containerSize
         /\ canvasView' = Some([canvasView[1] EXCEPT
                !.styles = canvasStyles(cSettings, cImage, canvasView[1].contentScale,
                                        containerSize)])
    /\ UNCHANGED <<cSettings, cImage, model, styles, rInput, render, projections,
                   rendered>>
    /\ UNCHANGED <<hookVars, geoVars>>

\* The effect on [imageDimensions, containerSize, padding, inset,
\* aspectRatio]: setContentScale(calculateScaleFactor()) unless there is no
\* image or no measured container, and the render that follows.
ScaleEffect ==
    /\ canvasView # Null
    /\ canvasView[1].deps # Some(scaleDeps)
    /\ LET skipped == cImage = Null \/ cContainer.width = 0 \/ cContainer.height = 0
           contentScale ==
               IF skipped
               THEN canvasView[1].contentScale
               ELSE calculateScaleFactor(cSettings, cImage[1], cContainer)
       IN canvasView' = Some([contentScale |-> contentScale,
                              deps |-> Some(scaleDeps),
                              scaledFor |-> IF skipped THEN canvasView[1].scaledFor
                                            ELSE Some(scaleDeps),
                              styles |-> canvasStyles(cSettings, cImage, contentScale,
                                                      cContainer)])
    /\ UNCHANGED <<cSettings, cImage, cContainer, model, styles, rInput, render,
                   projections, rendered>>
    /\ UNCHANGED <<hookVars, geoVars>>

\* The page passes new settings (a ControlPanel control was moved): a render
\* with the contentScale of before.
PreviewSettingsChange ==
    /\ canvasView # Null
    /\ \E newSettings \in PreviewPartials :
         /\ updateSettings(cSettings, newSettings) # cSettings
         /\ cSettings' = updateSettings(cSettings, newSettings)
         /\ canvasView' = Some([canvasView[1] EXCEPT
                !.styles = canvasStyles(cSettings', cImage, canvasView[1].contentScale,
                                        cContainer)])
    /\ UNCHANGED <<cImage, cContainer, model, styles, rInput, render, projections,
                   rendered>>
    /\ UNCHANGED <<hookVars, geoVars>>

PreviewInit ==
    /\ cSettings \in CanvasSettings
    /\ cImage \in Images
    /\ cContainer \in PreviewContainers
    /\ CanvasIdle
    /\ HookInit
    /\ gKey = defaultSettings.aspectRatio
    /\ gContainer = [width |-> 0, height |-> 0]
    /\ GeoIdle

PreviewNext ==
    \/ CanvasMount
    \/ ContainerResize
    \/ PreviewSettingsChange
    \/ ScaleEffect

PreviewSpec == PreviewInit /\ [][PreviewNext]_vars

-----------------------------------------------------------------------------
(* computeCanvasStyles and renderToCanvas called repeatedly *)

RepeatedCallsSettings ==
    {[defaultSettings EXCEPT !.padding = p, !.aspectRatio = k] :
        p \in PagePaddings, k \in PageKeys}

RepeatedCallsInit ==
    /\ cSettings \in RepeatedCallsSettings
    /\ cImage \in {Null, Some([width |-> 2000, height |-> 1000])}
    /\ cContainer \in {[width |-> 0, height |-> 0], [width |-> 1600, height |-> 900]}
    /\ CanvasIdle
    /\ HookInit
    /\ gKey = defaultSettings.aspectRatio
    /\ gContainer = [width |-> 0, height |-> 0]
    /\ GeoIdle

RepeatedCallsNext ==
    \/ BuildModel
    \/ ProjectStyles
    \/ Reproject
    \/ RenderCall
    \/ RenderAgain
    \/ ImgOnload
    \/ ImgOnerror

RepeatedCallsSpec == RepeatedCallsInit /\ [][RepeatedCallsNext]_vars

-----------------------------------------------------------------------------
(* The settings at large: background preset, shadow, invalid images *)

\* The ids of the catalog and one id that is not in it.
PresetIds == {1, 2, 3, 99}

\* Values of the shadow slider.
Shadows == {0, 15, 40}

AppearanceSettings ==
    {[defaultSettings EXCEPT !.backgroundPreset = b, !.shadow = sh, !.aspectRatio = k] :
        b \in PresetIds, sh \in Shadows, k \in {"16:9", "a:b"}}

\* Decoded images, among them images without a natural size.
AppearanceImages == {Null, Some([width |-> 2000, height |-> 1000]),
                     Some([width |-> 0, height |-> 0]),
                     Some([width |-> 0, height |-> 900])}

\* The second Canvas component of Canvas.tsx mounts and renders.
SecondCanvasMount ==
    /\ canvasView = Null
    /\ canvasView' = Some([styles |-> secondCanvasStyles(cSettings)])
    /\ UNCHANGED <<cSettings, cImage, cContainer, model, styles, rInput, render,
                   projections, rendered>>
    /\ UNCHANGED <<hookVars, geoVars>>

AppearanceInit ==
    /\ cSettings \in AppearanceSettings
    /\ cImage \in AppearanceImages
    /\ cContainer \in {[width |-> 0, height |-> 0], [width |-> 1600, height |-> 900]}
    /\ CanvasIdle
    /\ HookInit
    /\ gKey = defaultSettings.aspectRatio
    /\ gContainer = [width |-> 0, height |-> 0]
    /\ GeoIdle

AppearanceNext ==
    \/ BuildModel
    \/ ProjectStyles
    \/ RenderCall
    \/ ImgOnload
    \/ ImgOnerror
    \/ CanvasMount
    \/ SecondCanvasMount

AppearanceSpec == AppearanceInit /\ [][AppearanceNext]_vars

-----------------------------------------------------------------------------
(* Properties of the model builder, the projector and the exporter *)

HasModelRatio(box, m) ==
    PositiveBox(box) /\ Div(Num(box.width), Num(box.height)) = RatioOf(m.aspectRatioValue)

\* The exporter has drawn the image of the built model on the target.
ImageRendered ==
    /\ model # Null /\ styles # Null /\ render # Null
    /\ rInput[1].model.content = model[1].content
    /\ render[1].status = "resolved"
    /\ render[1].canvas[1].layout # Null

\* The centre of the image box as a fraction of the canvas: the projector
\* centres the content with flex centring, the exporter places it itself.
projectedCentre(st) ==
    IF st.paddingContainer.alignItems = "center"
       /\ st.paddingContainer.justifyContent = "center"
    THEN [x |-> Frac(1, 2), y |-> Frac(1, 2)]
    ELSE [x |-> NaN, y |-> NaN]

renderedCentre(layout, target) ==
    [x |-> Div(Add(layout.image.x, Div(layout.image.width, Num(2))), Num(target.width)),
     y |-> Div(Add(layout.image.y, Div(layout.image.height, Num(2))), Num(target.height))]

\* C1: for a model of createCanvasModel with an image, a container A given
\* to computeCanvasStyles and a target B given to renderToCanvas that both
\* have the model's aspect ratio, the padding thickness, the image box width
\* and height and the inset thickness, each divided by the canvas's shorter
\* side, and the centre of the image box divided by the canvas size, are the
\* same in the projection at A and the rendering at B.
PreviewExportParity ==
    (ImageRendered /\ HasModelRatio(cContainer, model[1])
                   /\ HasModelRatio(rInput[1].target, model[1]))
      => LET st     == styles[1]
             layout == render[1].canvas[1].layout[1]
             target == rInput[1].target
             minA   == MathMin(st.container.width, st.container.height)
             minB   == MathMin(Num(target.width), Num(target.height))
         IN /\ Div(st.paddingContainer.padding, minA) = Div(layout.paddingPx, minB)
            /\ Div(st.image[1].width, minA) = Div(layout.image.width, minB)
            /\ Div(st.image[1].height, minA) = Div(layout.image.height, minB)
            /\ Div(st.insetWrapper[1].padding, minA) = Div(layout.insetPx, minB)
            /\ projectedCentre(st) = renderedCentre(layout, target)

\* A 16:9 model with padding and inset projected at 1600x900 and rendered at
\* 1920x1080.
PreviewExportParityWitness ==
    /\ ImageRendered
    /\ cSettings.aspectRatio = "16:9" /\ cSettings.padding = 20 /\ cSettings.inset = 10
    /\ cContainer = [width |-> 1600, height |-> 900]
    /\ rInput[1].target = [width |-> 1920, height |-> 1080]
    /\ HasModelRatio(cContainer, model[1])
    /\ HasModelRatio(rInput[1].target, model[1])
    /\ Gt(render[1].canvas[1].layout[1].insetPx, Num(0))

\* C3: with aspect ratio 1:1, padding 40, inset 0, a 2000x1000 image and a
\* non-empty container, the model has padding 0.4 and the scale of the
\* image-wider branch, and renderToCanvas at 1080x1080 draws an image box
\* about 205 px wide, half as high, centred vertically.
WorkedExample ==
    (/\ ImageRendered
     /\ cSettings.aspectRatio = "1:1" /\ cSettings.padding = 40 /\ cSettings.inset = 0
     /\ cImage = Some([width |-> 2000, height |-> 1000])
     /\ PositiveBox(cContainer)
     /\ rInput[1].target = [width |-> 1080, height |-> 1080])
      => LET layout == render[1].canvas[1].layout[1] IN
         /\ model[1].content.padding = Frac(4, 10)
         /\ model[1].content.image[1].scale = Mul(Frac(2, 10), Frac(95, 100))
         /\ Ge(layout.image.width, Num(205)) /\ Le(layout.image.width, Num(206))
         /\ layout.image.height = Div(layout.image.width, Num(2))
         /\ Add(layout.image.y, Div(layout.image.height, Num(2))) = Num(540)

\* C4: for every padding >= 0 and inset >= 0 the model of createCanvasModel
\* has 0 <= content.padding <= 0.4 and 0 <= image.effects.inset.size <= 0.2.
NormalizationCeilings ==
    model # Null
      => /\ Ge(model[1].content.padding, Num(0))
         /\ Le(model[1].content.padding, Frac(4, 10))
         /\ model[1].content.image # Null
              => /\ Ge(model[1].content.image[1].effects.inset.size, Num(0))
                 /\ Le(model[1].content.image[1].effects.inset.size, Frac(2, 10))

\* A model built from a padding and an inset above their ceilings.
NormalizationCeilingsWitness ==
    /\ model # Null /\ model[1].content.image # Null
    /\ cSettings.padding = 60 /\ cSettings.inset = 30
    /\ model[1].content.padding = Frac(4, 10)
    /\ model[1].content.image[1].effects.inset.size = Frac(2, 10)

scaleOf(m) == m.content.image[1].scale

modelFor(s) ==
    createCanvasModel(s, backgroundPresets, cImage, aspectRatioOptions, cContainer)

\* C5: for fixed image dimensions, aspect ratio and non-empty container,
\* raising settings.padding or settings.inset, all else unchanged, does not
\* raise the image scale of createCanvasModel.
ScaleMonotonic ==
    (model # Null /\ cImage # Null /\ PositiveBox(cContainer))
      => \A p \in Paddings, i \in Insets :
            (p >= cSettings.padding /\ i >= cSettings.inset)
              => Le(scaleOf(modelFor([cSettings EXCEPT !.padding = p, !.inset = i])),
                    scaleOf(model[1]))

\* A model whose scale strictly drops when the padding is raised and when
\* the inset is raised.
ScaleMonotonicWitness ==
    /\ model # Null /\ cImage # Null /\ PositiveBox(cContainer)
    /\ cSettings.padding = 0 /\ cSettings.inset = 0
    /\ Lt(scaleOf(modelFor([cSettings EXCEPT !.padding = 20])), scaleOf(model[1]))
    /\ Lt(scaleOf(modelFor([cSettings EXCEPT !.inset = 10])), scaleOf(model[1]))

NoImageStability ==
    /\ (model # Null /\ cImage = Null) => model[1].content.image = Null
    /\ (styles # Null /\ cImage = Null)
         => /\ styles[1].shadowWrapper = Null
            /\ styles[1].insetWrapper = Null
            /\ styles[1].image = Null
    /\ (/\ render # Null
        /\ rInput[1].model.content.image = Null
        /\ rInput[1].ctxOk
        /\ PositiveBox(rInput[1].target))
         => /\ render[1].status = "resolved"
            /\ render[1].canvas[1].layout = Null

\* A model built without an image has been projected and rendered.
NoImageStabilityWitness ==
    /\ cImage = Null /\ model # Null /\ styles # Null /\ render # Null
    /\ rInput[1].ctxOk
    /\ rInput[1].target = [width |-> 1920, height |-> 1080]
    /\ render[1].status = "resolved"

\* The box renderToCanvas draws: the image with its inset border, if any.
drawnBox(layout) == IF layout.inset # Null THEN layout.inset[1] ELSE layout.image

\* C17: for every model built with an image of positive natural dimensions,
\* a non-empty container and padding, inset >= 0, and every target with the
\* model's aspect ratio, the image box drawn by renderToCanvas together with
\* its inset border lies entirely inside the target canvas.
ImageNeverClips ==
    (ImageRendered /\ PositiveBox(cContainer)
                   /\ HasModelRatio(rInput[1].target, model[1]))
      => LET box    == drawnBox(render[1].canvas[1].layout[1])
             target == rInput[1].target
         IN /\ Ge(box.x, Num(0))
            /\ Ge(box.y, Num(0))
            /\ Le(Add(box.x, box.width), Num(target.width))
            /\ Le(Add(box.y, box.height), Num(target.height))

\* C18: for every padding and inset the sliders reach, every aspect-ratio
\* option and every image with positive natural dimensions, the image scale
\* of the model createCanvasModel returns lies in [0, 1].
ScaleRange ==
    (model # Null /\ cImage # Null)
      => /\ Ge(scaleOf(model[1]), Num(0))
         /\ Le(scaleOf(model[1]), Num(1))

-----------------------------------------------------------------------------
(* Properties of the live preview *)

\* The padding, the inset and the image width of a render as fractions of
\* the shorter side of its canvas.
previewFractions(st) ==
    LET shorter == MathMin(st.container.width, st.container.height)
    IN [padding |-> Div(st.padding, shorter),
        inset   |-> Div(st.inset, shorter),
        image   |-> Div(st.image.width, shorter)]

\* The render of the Canvas at a container once its effect has run there.
previewAt(containerSize) ==
    canvasStyles(cSettings, cImage,
                 calculateScaleFactor(cSettings, cImage[1], containerSize),
                 containerSize)

SameRatio(a, b) == a.width * b.height = b.width * a.height

\* C20: for fixed settings and image, at any two container sizes with the
\* same aspect ratio the live Canvas gives the padding thickness, the inset
\* thickness and the image box width the same fraction of the canvas's
\* shorter side.
PreviewResolutionIndependent ==
    (/\ canvasView # Null
     /\ canvasView[1].deps = Some(scaleDeps)
     /\ cImage # Null
     /\ PositiveBox(cContainer))
      => \A other \in PreviewContainers :
            (PositiveBox(other) /\ SameRatio(other, cContainer))
              => previewFractions(previewAt(other))
                   = previewFractions(canvasView[1].styles)

\* C21: after any sequence of container-resize and settings-change events,
\* once the pending effects have run, the contentScale of the Canvas equals
\* calculateScaleFactor of the current imageDimensions, containerSize and
\* settings; no value computed from earlier inputs persists.
NoStaleContentScale ==
    (/\ canvasView # Null
     /\ canvasView[1].deps = Some(scaleDeps)
     /\ cImage # Null
     /\ canvasView[1].scaledFor # Null)
      => /\ canvasView[1].scaledFor = Some(scaleDeps)
         /\ canvasView[1].contentScale
              = calculateScaleFactor(cSettings, cImage[1], cContainer)

\* The effect has set contentScale for the inputs the Canvas has now.
ScaleApplied ==
    /\ canvasView # Null /\ cImage # Null
    /\ canvasView[1].scaledFor = Some(scaleDeps)

\* The canvas size less twice the padding and twice the inset.
availableExtent ==
    LET st == canvasView[1].styles
    IN [width  |-> Sub(Sub(st.container.width, Mul(Num(2), st.padding)),
                       Mul(Num(2), st.inset)),
        height |-> Sub(Sub(st.container.height, Mul(Num(2), st.padding)),
                       Mul(Num(2), st.inset))]

\* C28: in calculateScaleFactor of the Canvas, when the available width and
\* height (canvas size less 2 x padding less 2 x inset) are both positive,
\* the scaled image is no wider than the available width, no taller than the
\* available height and 0.95 x the available extent on the binding axis;
\* when either available extent is <= 0 the scale is exactly 0.01.
LivePreviewFit ==
    ScaleApplied
      => LET image == canvasView[1].styles.image
             avail == availableExtent
         IN IF Gt(avail.width, Num(0)) /\ Gt(avail.height, Num(0))
            THEN /\ Le(image.width, avail.width)
                 /\ Le(image.height, avail.height)
                 /\ \/ image.width = Mul(Frac(95, 100), avail.width)
                    \/ image.height = Mul(Frac(95, 100), avail.height)
            ELSE canvasView[1].contentScale = Frac(1, 100)

\* A preview with padding and inset whose image is bound by the width.
LivePreviewFitWitness ==
    /\ ScaleApplied
    /\ cSettings.padding > 0 /\ cSettings.inset > 0
    /\ Gt(availableExtent.width, Num(0)) /\ Gt(availableExtent.height, Num(0))
    /\ canvasView[1].styles.image.width = Mul(Frac(95, 100), availableExtent.width)
    /\ Lt(canvasView[1].styles.image.height, Mul(Frac(95, 100), availableExtent.height))

-----------------------------------------------------------------------------
(* Properties of the background and the shadow *)

\* The Tailwind palette: the hex value of a colour name.
tailwindColor(name) ==
    CASE name = "blue-500"   -> "#3b82f6"
      [] name = "purple-600" -> "#9333ea"
      [] name = "green-400"  -> "#4ade80"
      [] name = "orange-400" -> "#fb923c"
      [] name = "pink-500"   -> "#ec4899"
      [] OTHER -> ""

\* The colour stops a class string gives the canvas div: those of its from-
\* and to- utilities, or none for a class without a gradient.
classStops(className) ==
    LET words == split(className, " ")
        from  == {i \in 1..Len(words) : startsWith(words[i], "from-")}
        to    == {i \in 1..Len(words) : startsWith(words[i], "to-")}
        rest(w, prefix) == SubSeq(w, Len(prefix) + 1, Len(w))
    IN IF from = {} \/ to = {} THEN Null
       ELSE Some(<<tailwindColor(rest(words[CHOOSE i \in from : TRUE], "from-")),
                   tailwindColor(rest(words[CHOOSE i \in to : TRUE], "to-"))>>)

\* The canvas the exporter has filled for the built model.
BackgroundRendered ==
    /\ canvasView # Null /\ model # Null /\ render # Null
    /\ render[1].canvas # Null

\* C22: for every value of settings.backgroundPreset, ids outside the
\* catalog included, the background class of the live preview and the
\* gradient stops the export path draws (createCanvasModel className, then
\* the renderToCanvas lookup) denote the same preset.
BackgroundAgreement ==
    BackgroundRendered
      => classStops(canvasView[1].styles.background) = Some(render[1].canvas[1].stops)

\* The box shadow of the mounted Canvas, of either component.
viewShadow ==
    IF "screenshot" \in DOMAIN canvasView[1].styles
    THEN canvasView[1].styles.screenshot.boxShadow
    ELSE canvasView[1].styles.shadowWrapper.boxShadow

Proportional(shadow, intensity) ==
    /\ shadow.offsetX = Mul(Frac(1, 2), intensity)
    /\ shadow.offsetY = Mul(Frac(3, 2), intensity)
    /\ shadow.blur = Mul(Frac(5, 2), intensity)

\* C23: every shadow the program computes, in the model builder (intensity
\* settings.shadow / 100) and in both live Canvas renderings (intensity
\* settings.shadow), has offsetX = 0.5 x, offsetY = 1.5 x and blur = 2.5 x
\* the intensity.
ShadowProportions ==
    /\ (model # Null /\ model[1].content.image # Null)
         => Proportional(model[1].content.image[1].effects.shadow,
                         Div(Num(cSettings.shadow), Num(100)))
    /\ (canvasView # Null /\ viewShadow # Null)
         => Proportional(viewShadow[1], Num(cSettings.shadow))

\* The geometric fields of a model are numbers, neither NaN nor infinite.
FiniteGeometry(m) ==
    /\ IsFinite(m.aspectRatioValue.width) /\ IsFinite(m.aspectRatioValue.height)
    /\ IsFinite(m.content.padding)
    /\ m.content.image # Null
         => LET img == m.content.image[1] IN
            /\ IsFinite(img.naturalWidth) /\ IsFinite(img.naturalHeight)
            /\ IsFinite(img.position.x) /\ IsFinite(img.position.y)
            /\ IsFinite(img.scale)
            /\ IsFinite(img.effects.inset.size)
            /\ IsFinite(img.effects.borderRadius)
            /\ IsFinite(img.effects.shadow.offsetX)
            /\ IsFinite(img.effects.shadow.offsetY)
            /\ IsFinite(img.effects.shadow.blur)

\* C24: createCanvasModel returns a model for every input (unknown aspect
\* key, unknown preset id, null image, zero-sized container), and whenever
\* imageDimensions is null or its width or height is not a positive number
\* the model has no image and no NaN or infinite geometric field.
BuilderDegradation ==
    (model # Null /\ (cImage = Null \/ ~PositiveBox(cImage[1])))
      => /\ model[1].content.image = Null
         /\ FiniteGeometry(model[1])

\* The exporter has run its noise step on the filled canvas.
NoiseApplied ==
    /\ render # Null /\ render[1].canvas # Null
    /\ render[1].canvas[1].noise

AbsDiff(a, b) == IF Lt(a, b) THEN Sub(b, a) ELSE Sub(a, b)

\* C25: after the noise step of renderToCanvas every pixel's R, G and B lie
\* in [0, 255], each differs from its value before the step by at most
\* 12.5 x noiseOpacity, and the pixel's alpha is unchanged.
NoiseBounds ==
    NoiseApplied
      => LET before == render[1].canvas[1].fill
             after  == render[1].canvas[1].pixel
             most   == Mul(Frac(125, 10), rInput[1].model.background.effects.noise[1])
         IN /\ \A c \in {"r", "g", "b"} :
                  /\ Ge(after[c], Num(0)) /\ Le(after[c], Num(255))
                  /\ Le(AbsDiff(after[c], before[c]), most)
            /\ after.a = before.a

\* A canvas whose pixel the noise step has changed.
NoiseBoundsWitness ==
    /\ NoiseApplied
    /\ render[1].canvas[1].pixel.r # render[1].canvas[1].fill.r
    /\ render[1].canvas[1].pixel.a = Num(255)

-----------------------------------------------------------------------------
(* Properties of repeated calls *)

\* C13: two calls of renderToCanvas with identical model, source image,
\* targetWidth and targetHeight produce identical pixel output.
RenderDeterministic ==
    \A i, j \in DOMAIN rendered :
        (rendered[i].status = "resolved" /\ rendered[j].status = "resolved")
          => rendered[i].canvas = rendered[j].canvas

-----------------------------------------------------------------------------
(* Properties of the page *)

\* What the caller of exportImage or copyToClipboard can observe of a call.
outcome(task) == <<task.promise, task.value>>

\* C9: whenever a step of exportImage or copyToClipboard fails (element not
\* found, toPng rejects, fetch or clipboard write rejects), the caller
\* observes a rejected promise or a failure value, an outcome that differs
\* from the outcome of every successful call.
ExportFailureSurfaced ==
    \A failedTask \in BagToSet(exports) :
        (failedTask.pc = "done" /\ failedTask.failed)
          => /\ failedTask.promise = "rejected" \/ failedTask.value # "undefined"
             /\ \A task \in BagToSet(exports) :
                    (task.pc = "done" /\ ~task.failed /\ task.outputs > 0)
                      => outcome(task) # outcome(failedTask)

\* C16: a pasted or dropped file that is not an image never changes
\* screenshotSrc, and each paste or drop passes at most one file to
\* handleImageUpload.
UploadBoundary ==
    /\ [](screenshotSrc # Null => fileOf(screenshotSrc[1]).isImage)
    /\ [][uploads' <= uploads + 1]_vars

\* Canvas.tsx renders the framed image, sized from imageDimensions.
framedImageShown == screenshotSrc # Null /\ imageDimensions # Null

\* C19: for every interleaving of uploads and decode completions, in every
\* state where the framed image is shown, imageDimensions are the natural
\* dimensions of the image currently in screenshotSrc.
DecodeBeforeLayout ==
    framedImageShown
      => imageDimensions[1] = [width  |-> fileOf(screenshotSrc[1]).width,
                               height |-> fileOf(screenshotSrc[1]).height]

\* The calls whose toPng render has been started and has not settled.
rendersInFlight ==
    LET rendering == {task \in BagToSet(exports) : task.pc = "toPng"}
    IN BagCardinality([task \in rendering |-> CopiesIn(task, exports)])

\* C11: an export requested while a previous export is in flight is queued
\* behind it or cancels it: in no reachable state are two export renders in
\* flight at the same time.
ExportSerialized == rendersInFlight <= 1

\* C26: one call of exportImage or copyToClipboard performs at most one
\* render attempt and at most one download or clipboard write, whether the
\* attempt succeeds or fails.
NoAutomaticRetry ==
    /\ \A task \in BagToSet(exports) : task.renders <= 1 /\ task.outputs <= 1
    /\ downloads + clipboard <= BagCardinality(exports)

\* A call whose render attempt failed and that has returned, and a call
\* that has delivered its output.
NoAutomaticRetryWitness ==
    /\ \E task \in BagToSet(exports) :
         task.pc = "done" /\ task.failed /\ task.renders = 1 /\ task.outputs = 0
    /\ \E task \in BagToSet(exports) :
         task.pc = "done" /\ ~task.failed /\ task.renders = 1 /\ task.outputs = 1

\* C27: if handleImageUpload is called for file A and later for file B, then
\* once both reads have completed screenshotSrc holds B's data, whatever the
\* order of completion: the read of an upload that completes after the read
\* of a later upload does not replace what that later read has stored.
LastUploadWins ==
    [][\A r \in reads :
          (/\ reads' = reads \ {r}
           /\ \E later \in (r.id + 1)..uploads : \A q \in reads : q.id # later)
            => screenshotSrc' = screenshotSrc]_vars

\* C29: in every state where screenshotSrc is null, calling exportImage or
\* copyToClipboard performs no render, no download and no clipboard write,
\* and canExport is false.
ExportGating ==
    screenshotSrc = Null
      => /\ ~canExport
         /\ downloads = 0 /\ clipboard = 0
         /\ \A task \in BagToSet(exports) :
              task.pc = "done" /\ task.renders = 0 /\ task.outputs = 0

\* exportImage and copyToClipboard have both been called without an image.
ExportGatingWitness ==
    /\ screenshotSrc = Null
    /\ \E task \in BagToSet(exports) : task.kind = "export" /\ task.promise = "fulfilled"
    /\ \E task \in BagToSet(exports) : task.kind = "copy" /\ task.promise = "fulfilled"

\* The partial records the controls pass to updateSettings.
ControlPartials ==
    {[aspectRatio |-> v] : v \in PageKeys} \cup {[padding |-> v] : v \in PagePaddings}

\* C30: updateSettings(partial) changes exactly the settings fields present
\* in the partial record, leaves every other settings field at its previous
\* value and leaves screenshotSrc unchanged; successive updates compose in
\* call order.
SettingsUpdateFrame ==
    [][settings' # settings
         => /\ screenshotSrc' = screenshotSrc
            /\ DOMAIN settings' = DOMAIN settings
            /\ \E partial \in ControlPartials :
                 /\ \A k \in DOMAIN partial : settings'[k] = partial[k]
                 /\ \A k \in DOMAIN settings \ DOMAIN partial :
                      settings'[k] = settings[k]]_vars

\* Two updates made one after the other with an image loaded: both fields
\* hold their new values, every other field its default.
SettingsUpdateFrameWitness ==
    /\ screenshotSrc # Null
    /\ settings = [defaultSettings EXCEPT !.padding = 0,
                                          !.aspectRatio = "instagram-story"]

====
